---- MODULE Spec2Model ----
(***************************************************************************)
(* Model of the dynamic service registration engine of UXMCP:              *)
(*   - the service store (service_crud.py, a MongoDB collection),          *)
(*   - the live HTTP route table (app.router.routes),                      *)
(*   - the MCP manager's tools / resources / prompts collections,          *)
(*   - the API handlers create / delete / activate / deactivate,           *)
(*   - the router operations mount_service / unmount_service and the       *)
(*     start-up pass mount_all_active_services.                            *)
(*   - the invocation of a mounted service: dynamic_handler over HTTP and  *)
(*     MCPManager._execute_service over MCP, with the execution log.       *)
(* Spec:            requests handled one after the other.                  *)
(* SpecStartup:     the start-up pass over a persisted store.              *)
(* SpecConcurrent:  activate / deactivate requests in flight together.     *)
(* SpecResolve:     parameter resolution of one request.                   *)
(* SpecInvoke:      invocations of mounted services, one after the other.  *)
(* SpecInterleaved: invocations in progress together.                      *)
(* SpecResource:    reads of resource services over HTTP and over MCP.     *)
(* SpecUpdate:      updates of a service between activate and deactivate.  *)
(* SpecRace:        a delete request in flight with activate / deactivate. *)
(* SpecSignature:   the functions built from a service's parameter list.   *)
(* SpecAgent:       an agent execution: the LLM loop and its tool calls.   *)
(***************************************************************************)
EXTENDS Integers, Sequences, FiniteSets, TLC

VARIABLES
    store,      \* services collection: id -> document, or NoService
    routes,     \* app.router.routes: the ordered live route table
    tools,      \* keys of MCPManager.tools
    resources,  \* keys of MCPManager.resources
    prompts,    \* keys of MCPManager.prompts
    response,   \* the last request, its outcome and the router call it made
    seq,        \* progress of a run mount(S); unmount(S); mount(S) of consecutive requests
    pc,         \* position of the process: "start", "mounting" (start-up pass), "serving"
    pending,    \* start-up pass: the listed services not yet visited by the for loop
    mounted_at_start, \* ids whose mount_service call returned normally in the start-up pass
    reqs,       \* concurrent activate / deactivate requests: each coroutine's position
    inv,        \* service invocations: each dynamic_handler call's locals and position
    loggers,    \* the ServiceLogger instances: execution_id and _request_data
    sink,       \* log entries in the order they were emitted, each with where it went
    tasks,      \* logging coroutines scheduled with asyncio.create_task, not yet run
    built,      \* signature synthesis: the parameter list, the builder and what it gave
    agent       \* one agent execution: the locals of the LLM loop and its position

vars == <<store, routes, tools, resources, prompts, response, seq, pc, pending,
          mounted_at_start, reqs, inv, loggers, sink, tasks, built, agent>>

router == <<routes, tools, resources, prompts>>

----------------------------------------------------------------------------
(* Bounds *)

MaxRoutes   == 4      \* cap on the length of the route table while serving requests
MaxStored   == 101    \* most documents in the store at process start
MaxOddIdx   == 2      \* at process start one document of unknown type and one inactive
MaxParams   == 3      \* most declared parameters of a service whose signature is built
MaxIterations == 3    \* largest max_iterations of an agent
MaxCalls    == 2      \* most tool calls in one LLM response
                      \* document may be stored, each at an index <= MaxOddIdx

(* Program constants *)

ListLimit == 100      \* default of ServiceCRUD.list(limit=...)

----------------------------------------------------------------------------
(* Values *)

\* While serving requests the model follows one document slot and one service
\* name, which successive create requests may reuse with different definitions.
Ids      == {1}
Names    == {"alpha"}
Paths    == {"/health", "/echo"}
Methods  == {"GET"}                       \* the default of ServiceBase.method
KnownTypes == {"tool", "resource", "prompt"}
Types    == KnownTypes \cup {"widget"}     \* service_type is an unvalidated str

NoService == [id |-> 0]
NoSeq     == [id |-> 0, pos |-> 0]

\* coroutines of concurrently served activate / deactivate requests
Requests   == {1, 2, 3}
NoRequests == [r \in Requests |-> [op |-> "none", pc |-> "idle", svc |-> NoService, status |-> 0]]

\* calls of mounted services that are in progress together
Invocations == {1, 2}

NoParams   == [k \in {} |-> ""]
NoResponse == [status |-> 0, body |-> "none", header |-> "none"]
NoRequest  == [path |-> NoParams, query |-> NoParams,
               body |-> [json |-> "none", fields |-> NoParams]]
NoData     == [method |-> "none", route |-> "none", params |-> NoParams, query |-> NoParams]
NoCode     == [id |-> 0, name |-> "none", service_type |-> "tool", route |-> "/",
               method |-> "GET", active |-> FALSE, dependencies |-> <<>>, code |-> "none"]

NoInvocations ==
    [i \in Invocations |->
        [pc |-> "idle", via |-> "none", service |-> NoCode, request |-> NoRequest,
         execution_id |-> "none", logger |-> 0, params |-> NoParams, deps |-> <<>>,
         executed |-> FALSE, called |-> FALSE, args |-> NoParams,
         result |-> "none", raising |-> NoResponse, response |-> NoResponse]]

\* self._request_data = None until set_request_data
NoLoggers == [k \in Invocations |-> [execution_id |-> "none", request_data |-> NoData]]

\* no signature has been synthesized, no agent execution has begun
NoSignature == [by |-> "none", params |-> <<>>, raised |-> "none", parameters |-> <<>>]
NoExecution == [pc |-> "idle", max_iterations |-> 0, tools |-> {}, iterations |-> 0,
                llm_calls |-> 0, messages |-> <<>>,
                message |-> [content |-> "none", tool_calls |-> <<>>],
                call |-> [name |-> "none", arguments |-> "none"],
                results |-> <<>>, dispatched |-> {},
                result |-> [output |-> "none", iterations |-> 0],
                raised |-> FALSE, success |-> FALSE]

AgentEndpoint == "/echo"
AgentName     == "helper"

\* Service(**document): the pydantic object handed to the router
Service(id, name, service_type, route, method, active) ==
    [id |-> id, name |-> name, service_type |-> service_type,
     route |-> route, method |-> method, active |-> active]

\* the routes FastAPI holds before any dynamic mount (main.py: @app.get("/health"))
BuiltinRoutes == << [path |-> "/health", methods |-> {"GET"}, name |-> "health_check"] >>

----------------------------------------------------------------------------
(* MCP manager *)

\* each collection is a dict keyed by service name; only its key set is kept
\* register_service raises ValueError for an unknown service_type
register_raises(svc) == svc.service_type \notin KnownTypes

register_tools(t, svc)     == IF svc.service_type = "tool"     THEN t \cup {svc.name} ELSE t
register_resources(r, svc) == IF svc.service_type = "resource" THEN r \cup {svc.name} ELSE r
register_prompts(p, svc)   == IF svc.service_type = "prompt"   THEN p \cup {svc.name} ELSE p

\* unregister_service: the whole body is guarded by `if service_name in self.tools`
unregister_tools(t, name)          == IF name \in t THEN t \ {name} ELSE t
unregister_resources(t, r, name)   == r
unregister_prompts(t, r, p, name)  == p

----------------------------------------------------------------------------
(* Router *)

dynamic_route(svc) == [path |-> svc.route, methods |-> {svc.method}, name |-> "dynamic_" \o svc.name]
agent_route        == [path |-> AgentEndpoint, methods |-> {"POST"}, name |-> "agent_" \o AgentName]

\* app.add_api_route appends to app.router.routes
add_api_route(rt, r) == Append(rt, r)

\* the list comprehension of unmount_service / unmount_agent
KeepRoute(r, path, method) == ~(r.path = path /\ method \in r.methods)
remove_routes(rt, path, method) == SelectSeq(rt, LAMBDA r : KeepRoute(r, path, method))

RouterState == [routes |-> routes, tools |-> tools, resources |-> resources, prompts |-> prompts]

\* mount_service: add the route, then register with MCP; any exception is re-raised
mount_service(R, svc) ==
    LET added == [R EXCEPT !.routes = add_api_route(@, dynamic_route(svc))]
    IN  IF register_raises(svc)
        THEN [state |-> added, raised |-> TRUE]
        ELSE [state |-> [added EXCEPT !.tools     = register_tools(@, svc),
                                      !.resources = register_resources(@, svc),
                                      !.prompts   = register_prompts(@, svc)],
              raised |-> FALSE]

\* unmount_service: filter the route table, then unregister from MCP
unmount_service(R, svc) ==
    [state |-> [routes    |-> remove_routes(R.routes, svc.route, svc.method),
                tools     |-> unregister_tools(R.tools, svc.name),
                resources |-> unregister_resources(R.tools, R.resources, svc.name),
                prompts   |-> unregister_prompts(R.tools, R.resources, R.prompts, svc.name)],
     raised |-> FALSE]

SetRouter(R) ==
    /\ routes' = R.routes
    /\ tools' = R.tools
    /\ resources' = R.resources
    /\ prompts' = R.prompts

----------------------------------------------------------------------------
(* Service store *)

Exists(id) == id \in DOMAIN store /\ store[id] # NoService
Stored     == {id \in DOMAIN store : store[id] # NoService}

\* unique indexes on "name" and on "route" (database.py)
DuplicateKey(name, route) ==
    \E i \in Stored : store[i].name = name \/ store[i].route = route

FreeIds == {i \in Ids : ~Exists(i)}
FreshId == CHOOSE i \in FreeIds : \A j \in FreeIds : i <= j

\* call: the router call the request made: "none", "mount", "mount_raised" or "unmount"
Reply(op, id, status, rcall) == [op |-> op, id |-> id, status |-> status, call |-> rcall]

\* the run mount(S); unmount(S); mount(S) made by consecutive requests
SeqAfterMount(id)   == IF seq = [id |-> id, pos |-> 2] THEN [id |-> id, pos |-> 3]
                                                       ELSE [id |-> id, pos |-> 1]
SeqAfterUnmount(id) == IF seq.id = id /\ seq.pos \in {1, 3} THEN [id |-> id, pos |-> 2]
                                                            ELSE NoSeq

\* no activate / deactivate coroutine and no invocation takes a step
NoCoroutine == UNCHANGED <<reqs, inv, loggers, sink, tasks, built, agent>>

Unserved == UNCHANGED <<pc, pending, mounted_at_start>> /\ NoCoroutine

----------------------------------------------------------------------------
(* API handlers, api/services.py *)

create_service(name, service_type, route, method, active) ==
    /\ pc = "serving"
    /\ IF DuplicateKey(name, route)
       THEN /\ response' = Reply("create", 0, 400, "none")
            /\ UNCHANGED store
       ELSE /\ FreeIds # {}
            /\ store' = [store EXCEPT ![FreshId] =
                            Service(FreshId, name, service_type, route, method, active)]
            /\ response' = Reply("create", FreshId, 200, "none")
    /\ seq' = NoSeq
    /\ UNCHANGED router
    /\ Unserved

\* delete_service without the `if service.active` rejection
delete_service_unguarded(id) ==
    /\ pc = "serving"
    /\ IF ~Exists(id)
       THEN /\ response' = Reply("delete", id, 404, "none")
            /\ UNCHANGED store
       ELSE /\ store' = [store EXCEPT ![id] = NoService]
            /\ response' = Reply("delete", id, 200, "none")
    /\ seq' = NoSeq
    /\ UNCHANGED router
    /\ Unserved

delete_service(id) ==
    /\ pc = "serving"
    /\ IF ~Exists(id)
       THEN /\ response' = Reply("delete", id, 404, "none")
            /\ UNCHANGED store
       ELSE IF store[id].active
       THEN /\ response' = Reply("delete", id, 400, "none")
            /\ UNCHANGED store
       ELSE /\ store' = [store EXCEPT ![id] = NoService]
            /\ response' = Reply("delete", id, 200, "none")
    /\ seq' = NoSeq
    /\ UNCHANGED router
    /\ Unserved

\* the try block of activate: mount_service, then service_crud.activate
Activate(op, id, persist_fails) ==
    LET svc == store[id]
        m   == mount_service(RouterState, svc)
    IN  /\ Len(routes) < MaxRoutes
        /\ SetRouter(m.state)
        /\ IF m.raised
           THEN /\ response' = Reply(op, id, 500, "mount_raised")
                /\ seq' = NoSeq
                /\ UNCHANGED store
           ELSE /\ seq' = SeqAfterMount(id)
                /\ IF persist_fails
                   THEN /\ response' = Reply(op, id, 500, "mount")
                        /\ UNCHANGED store
                   ELSE /\ store' = [store EXCEPT ![id].active = TRUE]
                        /\ response' = Reply(op, id, 200, "mount")

\* the try block of deactivate: unmount_service, then service_crud.deactivate
Deactivate(op, id, persist_fails) ==
    LET svc == store[id]
        u   == unmount_service(RouterState, svc)
    IN  /\ SetRouter(u.state)
        /\ seq' = SeqAfterUnmount(id)
        /\ IF persist_fails
           THEN /\ response' = Reply(op, id, 500, "unmount")
                /\ UNCHANGED store
           ELSE /\ store' = [store EXCEPT ![id].active = FALSE]
                /\ response' = Reply(op, id, 200, "unmount")

\* an early return: nothing but the answer
Answer(op, id, status) ==
    /\ response' = Reply(op, id, status, "none")
    /\ seq' = NoSeq
    /\ UNCHANGED <<store, router>>

\* activate_service without the `if service.active` rejection
activate_service_unguarded(id, persist_fails) ==
    /\ pc = "serving"
    /\ IF ~Exists(id) THEN Answer("activate", id, 404)
       ELSE Activate("activate", id, persist_fails)
    /\ Unserved

activate_service(id, persist_fails) ==
    /\ pc = "serving"
    /\ IF ~Exists(id)           THEN Answer("activate", id, 404)
       ELSE IF store[id].active THEN Answer("activate", id, 400)
       ELSE Activate("activate", id, persist_fails)
    /\ Unserved

deactivate_service(id, persist_fails) ==
    /\ pc = "serving"
    /\ IF ~Exists(id)            THEN Answer("deactivate", id, 404)
       ELSE IF ~store[id].active THEN Answer("deactivate", id, 400)
       ELSE Deactivate("deactivate", id, persist_fails)
    /\ Unserved

(* AgentTools, core/agent_tools.py: the same steps, answered with a result     *)
(* dict; "success": True is recorded as status 200, "success": False as 500,   *)
(* so that a redundant request is answered 200 here and 400 by the API.        *)

AgentTools_activate_service(id, persist_fails) ==
    /\ pc = "serving"
    /\ IF ~Exists(id)           THEN Answer("activate", id, 500)
       ELSE IF store[id].active THEN Answer("activate", id, 200)
       ELSE Activate("activate", id, persist_fails)
    /\ Unserved

AgentTools_deactivate_service(id, persist_fails) ==
    /\ pc = "serving"
    /\ IF ~Exists(id)            THEN Answer("deactivate", id, 500)
       ELSE IF ~store[id].active THEN Answer("deactivate", id, 200)
       ELSE Deactivate("deactivate", id, persist_fails)
    /\ Unserved

----------------------------------------------------------------------------
(* Agent endpoints, api/agents.py and core/agent_router.py *)

mount_agent(rt)   == add_api_route(rt, agent_route)
unmount_agent(rt) == remove_routes(rt, AgentEndpoint, "POST")

activate_agent ==
    /\ pc = "serving"
    /\ Len(routes) < MaxRoutes
    /\ routes' = mount_agent(routes)
    /\ response' = Reply("activate_agent", 0, 200, "none")
    /\ seq' = NoSeq
    /\ UNCHANGED <<store, tools, resources, prompts>>
    /\ Unserved

deactivate_agent ==
    /\ pc = "serving"
    /\ routes' = unmount_agent(routes)
    /\ response' = Reply("deactivate_agent", 0, 200, "none")
    /\ seq' = NoSeq
    /\ UNCHANGED <<store, tools, resources, prompts>>
    /\ Unserved

----------------------------------------------------------------------------
(* Sequential request handling *)

Init ==
    /\ store = [i \in Ids |-> NoService]
    /\ routes = BuiltinRoutes
    /\ tools = {}
    /\ resources = {}
    /\ prompts = {}
    /\ response = Reply("none", 0, 0, "none")
    /\ seq = NoSeq
    /\ pc = "serving"
    /\ mounted_at_start = {}
    /\ pending = <<>>
    /\ reqs = NoRequests
    /\ inv = NoInvocations
    /\ loggers = NoLoggers
    /\ sink = <<>>
    /\ tasks = {}
    /\ built = NoSignature
    /\ agent = NoExecution

Create ==
    \E n \in Names, t \in Types, r \in Paths, m \in Methods, a \in BOOLEAN :
        create_service(n, t, r, m, a)
Delete          == \E id \in Ids : delete_service(id)
ApiActivate     == \E id \in Ids, f \in BOOLEAN : activate_service(id, f)
ApiDeactivate   == \E id \in Ids, f \in BOOLEAN : deactivate_service(id, f)
ToolsActivate   == \E id \in Ids, f \in BOOLEAN : AgentTools_activate_service(id, f)
ToolsDeactivate == \E id \in Ids, f \in BOOLEAN : AgentTools_deactivate_service(id, f)

Next ==
    \/ Create
    \/ Delete
    \/ ApiActivate
    \/ ApiDeactivate
    \/ ToolsActivate
    \/ ToolsDeactivate
    \/ activate_agent
    \/ deactivate_agent

Spec == Init /\ [][Next]_vars

----------------------------------------------------------------------------
(* Process start: main.py lifespan -> mount_all_active_services *)

StartName(i)  == "svc" \o ToString(i)
StartRoute(i) == "/svc/" \o ToString(i)
StartType(i)  == IF i % 3 = 0 THEN "tool" ELSE IF i % 3 = 1 THEN "resource" ELSE "prompt"

\* ServiceCRUD.list: find(filter).skip(0).limit(limit), documents in id order
Matching(active_only) ==
    {i \in DOMAIN store : store[i] # NoService /\ (active_only => store[i].active)}
Rank(i, active_only) == Cardinality({j \in Matching(active_only) : j <= i})
service_crud_list(limit, active_only) ==
    LET found == Cardinality(Matching(active_only))
        count == IF found < limit THEN found ELSE limit
    IN  [k \in 1..count |->
            store[CHOOSE i \in Matching(active_only) : Rank(i, active_only) = k]]

\* active_services = await service_crud.list(active_only=True); a raising list
\* is caught by the outer try and ends the pass
mount_all_active_services(list_raises) ==
    /\ pc = "start"
    /\ IF list_raises
       THEN /\ pc' = "serving"
            /\ pending' = <<>>
            /\ response' = Reply("startup", 0, 500, "none")
       ELSE /\ pc' = "mounting"
            /\ pending' = service_crud_list(ListLimit, TRUE)
            /\ UNCHANGED response
    /\ UNCHANGED <<store, router, seq, mounted_at_start>>
    /\ NoCoroutine

\* one iteration of the for loop: a raising mount_service is logged and skipped
mount_next_active_service ==
    /\ pc = "mounting"
    /\ pending # <<>>
    /\ LET svc == Head(pending)
           m   == mount_service(RouterState, svc)
       IN  /\ SetRouter(m.state)
           /\ mounted_at_start' = IF m.raised THEN mounted_at_start
                                              ELSE mounted_at_start \cup {svc.id}
    /\ pending' = Tail(pending)
    /\ UNCHANGED <<store, response, seq, pc>>
    /\ NoCoroutine

\* the loop is exhausted: the application starts serving
startup_complete ==
    /\ pc = "mounting"
    /\ pending = <<>>
    /\ pc' = "serving"
    /\ response' = Reply("startup", 0, 200, "none")
    /\ UNCHANGED <<store, router, seq, mounted_at_start, pending>>
    /\ NoCoroutine

InitStartup ==
    /\ \E n \in 0..MaxStored, odd \in 0..MaxOddIdx, idle \in 0..MaxOddIdx :
          store = [i \in 1..n |->
                      Service(i, StartName(i), IF i = odd THEN "widget" ELSE StartType(i),
                              StartRoute(i), "GET", i # idle)]
    /\ routes = BuiltinRoutes
    /\ tools = {}
    /\ resources = {}
    /\ prompts = {}
    /\ response = Reply("none", 0, 0, "none")
    /\ seq = NoSeq
    /\ pc = "start"
    /\ mounted_at_start = {}
    /\ pending = <<>>
    /\ reqs = NoRequests
    /\ inv = NoInvocations
    /\ loggers = NoLoggers
    /\ sink = <<>>
    /\ tasks = {}
    /\ built = NoSignature
    /\ agent = NoExecution

Startup == \E list_raises \in BOOLEAN : mount_all_active_services(list_raises)

NextStartup ==
    \/ Startup
    \/ mount_next_active_service
    \/ startup_complete

SpecStartup == InitStartup /\ [][NextStartup]_vars

----------------------------------------------------------------------------
(* Concurrent activate / deactivate requests, api/services.py                *)
(* A handler is a coroutine: it gives up the event loop at each await that   *)
(* waits for the database, and runs without interruption in between.         *)
(* mount_service and unmount_service wait for nothing, so a router call and  *)
(* the code around it is one step.                                           *)

\* service = await service_crud.get(service_id): the document as it is read
service_crud_get(r, op, id) ==
    /\ pc = "serving"
    /\ reqs[r].pc = "idle"
    /\ \A q \in Requests : q < r => reqs[q].pc # "idle"
    /\ reqs' = [reqs EXCEPT ![r] = [op |-> op, pc |-> "got", status |-> 0,
                                    svc |-> IF Exists(id) THEN store[id] ELSE NoService]]
    /\ UNCHANGED <<store, router, response, seq, pc, pending, mounted_at_start,
                   inv, loggers, sink, tasks, built, agent>>

\* the handler resumes with the document it read: the two checks, the router
\* call, and service_crud.activate / deactivate is awaited
resume_with_service(r) ==
    LET rq  == reqs[r]
        svc == rq.svc
        m   == IF rq.op = "activate" THEN mount_service(RouterState, svc)
                                     ELSE unmount_service(RouterState, svc)
        End(status) == reqs' = [reqs EXCEPT ![r].pc = "done", ![r].status = status]
    IN  /\ rq.pc = "got"
        /\ IF svc = NoService
           THEN End(404) /\ UNCHANGED router
           ELSE IF svc.active = (rq.op = "activate")
           THEN End(400) /\ UNCHANGED router
           ELSE /\ SetRouter(m.state)
                /\ IF m.raised THEN End(500)
                               ELSE reqs' = [reqs EXCEPT ![r].pc = "persist"]
        /\ UNCHANGED <<store, response, seq, pc, pending, mounted_at_start,
                       inv, loggers, sink, tasks, built, agent>>

\* update_one is applied to the collection and the handler returns the document;
\* a raising update is answered 500, and so is the None returned for a document
\* that is gone (it fails the response_model)
persist_active_flag(r, persist_fails) ==
    LET rq == reqs[r]
    IN  /\ rq.pc = "persist"
        /\ IF persist_fails
           THEN /\ reqs' = [reqs EXCEPT ![r].pc = "done", ![r].status = 500]
                /\ UNCHANGED store
           ELSE /\ reqs' = [reqs EXCEPT ![r].pc = "done",
                                        ![r].status = IF Exists(rq.svc.id) THEN 200 ELSE 500]
                /\ store' = [i \in DOMAIN store |->
                               IF i = rq.svc.id /\ store[i] # NoService
                               THEN [store[i] EXCEPT !.active = (rq.op = "activate")]
                               ELSE store[i]]
        /\ UNCHANGED <<router, response, seq, pc, pending, mounted_at_start,
                       inv, loggers, sink, tasks, built, agent>>

\* one stored tool service, inactive and unmounted, or active and mounted
InitConcurrent ==
    /\ \E p \in Paths, a \in BOOLEAN :
          LET svc == Service(1, "alpha", "tool", p, "GET", a)
              m   == mount_service([routes |-> BuiltinRoutes, tools |-> {},
                                    resources |-> {}, prompts |-> {}], svc)
          IN  /\ store = [i \in Ids |-> svc]
              /\ routes = IF a THEN m.state.routes ELSE BuiltinRoutes
              /\ tools = IF a THEN m.state.tools ELSE {}
    /\ resources = {}
    /\ prompts = {}
    /\ response = Reply("none", 0, 0, "none")
    /\ seq = NoSeq
    /\ pc = "serving"
    /\ mounted_at_start = {}
    /\ pending = <<>>
    /\ reqs = NoRequests
    /\ inv = NoInvocations
    /\ loggers = NoLoggers
    /\ sink = <<>>
    /\ tasks = {}
    /\ built = NoSignature
    /\ agent = NoExecution

RequestArrives == \E r \in Requests, op \in {"activate", "deactivate"}, id \in Ids :
                      service_crud_get(r, op, id)
Resume         == \E r \in Requests : resume_with_service(r)
Persist        == \E r \in Requests, f \in BOOLEAN : persist_active_flag(r, f)

NextConcurrent ==
    \/ RequestArrives
    \/ Resume
    \/ Persist

SpecConcurrent == InitConcurrent /\ [][NextConcurrent]_vars

----------------------------------------------------------------------------
(* Service invocation over HTTP: dynamic_handler, built by create_handler     *)

\* a stored service with the fields the handler reads; code is what the stored
\* code text does when it is executed and its handler is called
Definition(id, name, method, route, dependencies, code) ==
    [id |-> id, name |-> name, service_type |-> "tool", route |-> route, method |-> method,
     active |-> TRUE, dependencies |-> dependencies, code |-> code]

EchoNames == {"echo", "soup", "needy", "chatty", "empty", "broken", "faulty", "absent",
              "quitter"}

\* the route table dispatches a request to the handler mounted for the service
Mounted(service) == \E n \in 1..Len(routes) : routes[n] = dynamic_route(service)

\* a parameter mapping is a function from the names it binds to their values
ParamNames  == {"name", "loud"}
ParamValues == {"Alice", "Bob", "true"}
Mappings    == UNION {[d -> ParamValues] : d \in SUBSET ParamNames}

\* params[key] = value
Assign(params, key, value) ==
    [k \in DOMAIN params \cup {key} |-> IF k = key THEN value ELSE params[k]]

\* for key, value in source.items(): params[key] = value  (also dict.update)
RECURSIVE AssignAll(_, _, _)
AssignAll(params, source, keys) ==
    IF keys = {} THEN params
    ELSE LET key == CHOOSE k \in keys : TRUE
         IN  AssignAll(Assign(params, key, source[key]), source, keys \ {key})

\* re.compile(r'\{(\w+)\}').findall(service.route): the placeholders of a route
path_params(route) ==
    IF route = "/greet/{name}" THEN {"name"}
    ELSE IF route \in {"/" \o n \o "/{msg}" : n \in EchoNames} THEN {"msg"}
    ELSE {}

BodyMethods == {"POST", "PUT", "PATCH"}

\* parameter resolution in which the path binding is assigned after the query
resolve_params_path_last(method, request) ==
    LET query == request.query
        with_path == AssignAll(query, request.path, DOMAIN request.path)
        body == request.body
    IN  IF method \in BodyMethods /\ body.json = "object"
        THEN AssignAll(with_path, body.fields, DOMAIN body.fields)
        ELSE with_path

\* params = {path placeholders}; then the query parameters; then, for POST, PUT
\* and PATCH, the fields of a JSON body that is an object (a body that does not
\* parse or is not an object is ignored)
resolve_params(method, request) ==
    LET path == request.path
        with_query == AssignAll(path, request.query, DOMAIN request.query)
        body == request.body
    IN  IF method \in BodyMethods /\ body.json = "object"
        THEN AssignAll(with_query, body.fields, DOMAIN body.fields)
        ELSE with_query

\* str(uuid.uuid4()): a value no earlier call returned
uuid4(earlier) == "exec-" \o ToString(earlier + 1)
Started == {j \in Invocations : inv[j].pc # "idle"}

\* one logger instance that every call of dynamic_handler re-initialises
ServiceLogger_shared(i) == 1

\* ServiceLogger(db, service.id, service.name, execution_id): a new instance
\* for every call of dynamic_handler
ServiceLogger(i) == i

\* from the arrival of the request to the first awaited log call: execution_id,
\* the loggers, the resolved params, set_request_data
dynamic_handler(i, service, request) ==
    LET execution_id == uuid4(Cardinality(Started))
        k      == ServiceLogger(i)
        params == resolve_params(service.method, request)
    IN  /\ pc = "serving"
        /\ inv[i].pc = "idle"
        /\ \A j \in Invocations : j < i => inv[j].pc # "idle"
        /\ DOMAIN request.path = path_params(service.route)
        /\ inv' = [inv EXCEPT ![i] =
                     [@ EXCEPT !.pc = "await_started", !.via = "http",
                               !.service = service, !.request = request,
                               !.execution_id = execution_id, !.logger = k,
                               !.params = params, !.deps = service.dependencies]]
        /\ loggers' = [loggers EXCEPT ![k] =
                         [execution_id |-> execution_id,
                          request_data |-> [method |-> service.method, route |-> service.route,
                                            params |-> params, query |-> request.query]]]
        /\ UNCHANGED <<store, router, response, seq, pc, pending, mounted_at_start,
                       reqs, sink, tasks, built, agent>>

(* Parameter resolution on its own: one request to a /greet service *)

GreetMethods  == {"GET", "POST", "PUT", "PATCH", "DELETE"}
GreetServices ==
    {Definition(1, "greet", m, r, <<>>, "returns") :
        m \in GreetMethods, r \in {"/greet/{name}", "/greet"}}
GreetBodies   ==
    {[json |-> "object", fields |-> f] : f \in Mappings}
        \cup {[json |-> "array", fields |-> NoParams], [json |-> "invalid", fields |-> NoParams]}
\* the router binds every placeholder of the route, and nothing else, from the URL
GreetRequests(route) ==
    {[path |-> p, query |-> q, body |-> b] :
        p \in [path_params(route) -> ParamValues], q \in Mappings, b \in GreetBodies}

\* one /greet service is stored, active and mounted
InitResolve ==
    /\ \E service \in GreetServices :
          /\ store = <<service>>
          /\ routes = add_api_route(BuiltinRoutes, dynamic_route(service))
          /\ tools = register_tools({}, service)
    /\ resources = {}
    /\ prompts = {}
    /\ response = Reply("none", 0, 0, "none")
    /\ seq = NoSeq
    /\ pc = "serving"
    /\ mounted_at_start = {}
    /\ pending = <<>>
    /\ reqs = NoRequests
    /\ inv = NoInvocations
    /\ loggers = NoLoggers
    /\ sink = <<>>
    /\ tasks = {}
    /\ built = NoSignature
    /\ agent = NoExecution

ResolveRequest == \E service \in {g \in GreetServices : Mounted(g)} :
                      \E request \in GreetRequests(service.route) :
                          dynamic_handler(1, service, request)

NextResolve == ResolveRequest

SpecResolve == InitResolve /\ [][NextResolve]_vars

----------------------------------------------------------------------------
(* The invocation after its first log call.  dynamic_handler is a coroutine:  *)
(* it gives up the event loop at every awaited log call, while insert_one is  *)
(* in flight.  An action below is the completion of the insert the coroutine  *)
(* waits for, followed by the code up to the next await or to the end.        *)

\* modules importlib can find in this process
Installed == {"json", "bs4"}

\* package_mappings.get(dep, dep)
package_mappings(dep) == IF dep = "beautifulsoup4" THEN "bs4" ELSE dep

\* ServiceLogger._log: the entry is built from the logger's own fields and
\* inserted; a raising insert_one is caught and the entry is printed instead
\* (origin, the call whose code made the log call, is kept for the properties;
\* it is no field of the stored document)
ServiceLogger_log(origin, k, level, message, insert_fails) ==
    [execution_id |-> loggers[k].execution_id, request_data |-> loggers[k].request_data,
     level |-> level, message |-> message,
     to |-> IF insert_fails THEN "console" ELSE "service_logs", origin |-> origin]

\* logger.error of the module's logging.Logger: an application log record
logging_error(origin, message) ==
    [execution_id |-> "none", request_data |-> NoData, level |-> "error",
     message |-> message, to |-> "app_logs", origin |-> origin]

\* exec(service.code, global_vars, local_vars): what it raises, and whether it
\* leaves "handler" in local_vars
exec_code(code) ==
    IF code = "syntax_error" THEN [raised |-> "invalid syntax", handler |-> FALSE]
    ELSE IF code = "no_handler" THEN [raised |-> "none", handler |-> FALSE]
    ELSE [raised |-> "none", handler |-> TRUE]

\* handler(**params) with the names the HTTP execution context provides:
\*   returns      def handler(**params): return {"echo": params["msg"]}
\*   logs         the same after logger.info("working")
\*   raises       raise ValueError("boom")
\*   raises_http  raise HTTPException(status_code=404, detail="not found")
\*   exits        raise SystemExit(1), which is no Exception
call_handler(code, params) ==
    IF code \in {"returns", "logs"}
    THEN IF "msg" \in DOMAIN params
         THEN [outcome |-> "returns", value |-> params["msg"], error |-> "none",
               logged |-> code = "logs"]
         ELSE [outcome |-> "raises", value |-> "none", error |-> "'msg'",
               logged |-> code = "logs"]
    ELSE IF code = "raises"
    THEN [outcome |-> "raises", value |-> "none", error |-> "boom", logged |-> FALSE]
    ELSE IF code = "raises_http"
    THEN [outcome |-> "raises_http", value |-> "none", error |-> "not found", logged |-> FALSE]
    ELSE [outcome |-> "exits", value |-> "none", error |-> "none", logged |-> FALSE]

HTTPException(status_code, detail) == [status |-> status_code, body |-> detail, header |-> "none"]

\* exec followed by the handler call without the check for "handler"
ExecuteCode_without_check(v) ==
    LET x == exec_code(v.service.code)
    IN  IF x.raised # "none"
        THEN [v EXCEPT !.executed = TRUE, !.pc = "await_execution_error",
                       !.raising = HTTPException(500, "Service execution error: " \o x.raised)]
        ELSE [v EXCEPT !.executed = TRUE, !.pc = "await_calling"]

\* exec and the check for "handler": the coroutine reaches its next await
ExecuteCode(v) ==
    LET x == exec_code(v.service.code)
    IN  IF x.raised # "none"
        THEN [v EXCEPT !.executed = TRUE, !.pc = "await_execution_error",
                       !.raising = HTTPException(500, "Service execution error: " \o x.raised)]
        ELSE IF ~x.handler
        THEN [v EXCEPT !.executed = TRUE, !.pc = "await_missing_handler"]
        ELSE [v EXCEPT !.executed = TRUE, !.pc = "await_calling"]

\* the dependency loop going on after an import that failed
ImportNext_ignoring_failure(v) ==
    IF v.deps = <<>> THEN ExecuteCode(v) ELSE [v EXCEPT !.pc = "await_loaded"]

\* the for loop over service.dependencies: import the next one, or go on to exec
ImportNext(v) ==
    IF v.deps = <<>> THEN ExecuteCode(v)
    ELSE IF package_mappings(Head(v.deps)) \in Installed
    THEN [v EXCEPT !.pc = "await_loaded"]
    ELSE [v EXCEPT !.pc = "await_import_error"]

InvocationFrame == UNCHANGED <<store, router, response, seq, pc, pending, mounted_at_start,
                               reqs, loggers, built, agent>>

\* await async_logger.info("Service execution started") returns
started_logged(i, insert_fails) ==
    /\ inv[i].pc = "await_started"
    /\ sink' = Append(sink, ServiceLogger_log(i, inv[i].logger, "info",
                                             "Service execution started", insert_fails))
    /\ inv' = [inv EXCEPT ![i] = ImportNext(@)]
    /\ UNCHANGED tasks
    /\ InvocationFrame

\* await async_logger.debug("Loaded dependency: ...") returns
dependency_loaded(i, insert_fails) ==
    /\ inv[i].pc = "await_loaded"
    /\ sink' = Append(sink, ServiceLogger_log(i, inv[i].logger, "debug",
                               "Loaded dependency: " \o Head(inv[i].deps), insert_fails))
    /\ inv' = [inv EXCEPT ![i] = ImportNext([@ EXCEPT !.deps = Tail(@)])]
    /\ UNCHANGED tasks
    /\ InvocationFrame

\* await async_logger.error("Failed to import dependency ...") returns; the
\* HTTPException raised next is caught by `except HTTPException`
import_failed(i, insert_fails) ==
    /\ inv[i].pc = "await_import_error"
    /\ sink' = Append(sink, ServiceLogger_log(i, inv[i].logger, "error",
                               "Failed to import dependency " \o Head(inv[i].deps), insert_fails))
    /\ inv' = [inv EXCEPT ![i].pc = "await_http_exception",
                          ![i].raising = HTTPException(500, "Missing dependency: "
                                                               \o Head(inv[i].deps))]
    /\ UNCHANGED tasks
    /\ InvocationFrame

\* await async_logger.error("Service code missing handler function") returns
missing_handler_logged(i, insert_fails) ==
    /\ inv[i].pc = "await_missing_handler"
    /\ sink' = Append(sink, ServiceLogger_log(i, inv[i].logger, "error",
                               "Service code missing handler function", insert_fails))
    /\ inv' = [inv EXCEPT ![i].pc = "await_http_exception",
                          ![i].raising = HTTPException(500,
                                   "Service code must define a 'handler' function")]
    /\ UNCHANGED tasks
    /\ InvocationFrame

\* await async_logger.debug("Calling handler function") returns and the handler
\* is called; what the handler logs is scheduled as a task on the event loop
handler_called(i, insert_fails) ==
    LET h == call_handler(inv[i].service.code, inv[i].params)
    IN  /\ inv[i].pc = "await_calling"
        /\ sink' = Append(sink, ServiceLogger_log(i, inv[i].logger, "debug",
                                                 "Calling handler function", insert_fails))
        /\ tasks' = IF h.logged
                    THEN tasks \cup {[origin |-> i, logger |-> inv[i].logger]}
                    ELSE tasks
        /\ inv' = [inv EXCEPT ![i] =
                     IF h.outcome = "returns"
                     THEN [@ EXCEPT !.called = TRUE, !.args = inv[i].params, !.result = h.value,
                                    !.pc = "await_completed"]
                     ELSE IF h.outcome = "raises"
                     THEN [@ EXCEPT !.called = TRUE, !.args = inv[i].params,
                                    !.pc = "await_execution_error",
                                    !.raising = HTTPException(500,
                                         "Service execution error: " \o h.error)]
                     ELSE IF h.outcome = "raises_http"
                     THEN [@ EXCEPT !.called = TRUE, !.args = inv[i].params,
                                    !.pc = "await_http_exception",
                                    !.raising = HTTPException(404, h.error)]
                     ELSE [@ EXCEPT !.called = TRUE, !.args = inv[i].params, !.pc = "crashed"]]
        /\ InvocationFrame

\* the completion log call with an insert failure raising into the try block
completed_logged_raising(i, insert_fails) ==
    /\ inv[i].pc = "await_completed"
    /\ sink' = Append(sink, ServiceLogger_log(i, inv[i].logger, "info",
                               "Service execution completed successfully", insert_fails))
    /\ inv' = [inv EXCEPT ![i] =
                 IF insert_fails
                 THEN [@ EXCEPT !.pc = "await_execution_error",
                                !.raising = HTTPException(500,
                                     "Service execution error: insert failed")]
                 ELSE [@ EXCEPT !.pc = "done",
                                !.response = [status |-> 200,
                                              body |-> "echo: " \o inv[i].result,
                                              header |-> inv[i].execution_id]]]
    /\ UNCHANGED tasks
    /\ InvocationFrame

\* await async_logger.info("Service execution completed successfully") returns;
\* return JSONResponse(content=result, headers={"X-Execution-ID": execution_id})
completed_logged(i, insert_fails) ==
    /\ inv[i].pc = "await_completed"
    /\ sink' = Append(sink, ServiceLogger_log(i, inv[i].logger, "info",
                               "Service execution completed successfully", insert_fails))
    /\ inv' = [inv EXCEPT ![i].pc = "done",
                          ![i].response = [status |-> 200, body |-> "echo: " \o inv[i].result,
                                           header |-> inv[i].execution_id]]
    /\ UNCHANGED tasks
    /\ InvocationFrame

\* except HTTPException: await async_logger.error("HTTP Exception: ...") returns; raise
http_exception_logged(i, insert_fails) ==
    /\ inv[i].pc = "await_http_exception"
    /\ sink' = Append(sink, ServiceLogger_log(i, inv[i].logger, "error",
                               "HTTP Exception: " \o ToString(inv[i].raising.status),
                               insert_fails))
    /\ inv' = [inv EXCEPT ![i].pc = "done", ![i].response = inv[i].raising]
    /\ UNCHANGED tasks
    /\ InvocationFrame

\* except Exception: await async_logger.error("Service execution error") returns;
\* logger.error twice; raise HTTPException(500, "Service execution error: ...")
execution_error_logged(i, insert_fails) ==
    /\ inv[i].pc = "await_execution_error"
    /\ sink' = sink \o << ServiceLogger_log(i, inv[i].logger, "error",
                                            "Service execution error", insert_fails),
                          logging_error(i, "Error executing service " \o inv[i].service.name),
                          logging_error(i, "traceback") >>
    /\ inv' = [inv EXCEPT ![i].pc = "done", ![i].response = inv[i].raising]
    /\ UNCHANGED tasks
    /\ InvocationFrame

\* SimpleServiceLogger._run_async: the coroutine handed to asyncio.create_task
\* runs when the event loop gets to it, and nobody awaits it
run_log_task(t, insert_fails) ==
    /\ t \in tasks
    /\ tasks' = tasks \ {t}
    /\ sink' = Append(sink, ServiceLogger_log(t.origin, t.logger, "info", "working",
                                             insert_fails))
    /\ UNCHANGED inv
    /\ InvocationFrame

(* Invocation over MCP: tool_implementation -> MCPManager._execute_service.   *)
(* It waits for nothing, its context holds params, the builtins and json,     *)
(* and dependencies are imported under their declared names.                  *)

\* handler(**params) in that context: logger and HTTPException are not defined
mcp_call_handler(code, params) ==
    IF code = "logs"
    THEN [outcome |-> "raises", value |-> "none",
          error |-> "name 'logger' is not defined", logged |-> FALSE]
    ELSE IF code = "raises_http"
    THEN [outcome |-> "raises", value |-> "none",
          error |-> "name 'HTTPException' is not defined", logged |-> FALSE]
    ELSE call_handler(code, params)

RECURSIVE mcp_import(_)
\* the first declared dependency that raises ImportError, or "none"
mcp_import(deps) ==
    IF deps = <<>> THEN "none"
    ELSE IF Head(deps) \in Installed THEN mcp_import(Tail(deps))
    ELSE Head(deps)

MCPManager_execute_service(i, service, kwargs) ==
    LET missing == mcp_import(service.dependencies)
        x == exec_code(service.code)
        h == mcp_call_handler(service.code, kwargs)
        v == [inv[i] EXCEPT !.via = "mcp", !.service = service, !.params = kwargs]
        Return(w, body) == [w EXCEPT !.pc = "done",
                                     !.response = [status |-> 0, body |-> body,
                                                   header |-> "none"]]
    IN  /\ pc = "serving"
        /\ inv[i].pc = "idle"
        /\ \A j \in Invocations : j < i => inv[j].pc # "idle"
        /\ IF missing # "none"
           THEN /\ sink' = Append(sink, logging_error(i, "Failed to import dependency " \o missing))
                /\ inv' = [inv EXCEPT ![i] = Return(v, "error: Missing dependency: " \o missing)]
           ELSE IF x.raised # "none"
           THEN /\ sink' = Append(sink, logging_error(i, "Error executing MCP service "
                                                         \o service.name))
                /\ inv' = [inv EXCEPT ![i] = Return([v EXCEPT !.executed = TRUE],
                                      "error: Service execution error: " \o x.raised)]
           ELSE IF ~x.handler
           THEN /\ UNCHANGED sink
                /\ inv' = [inv EXCEPT ![i] = Return([v EXCEPT !.executed = TRUE],
                                      "error: Service code must define a 'handler' function")]
           ELSE IF h.outcome = "returns"
           THEN /\ UNCHANGED sink
                /\ inv' = [inv EXCEPT ![i] =
                             Return([v EXCEPT !.executed = TRUE, !.called = TRUE,
                                              !.args = kwargs, !.result = h.value],
                                    "echo: " \o h.value)]
           ELSE IF h.outcome = "raises"
           THEN /\ sink' = Append(sink, logging_error(i, "Error executing MCP service "
                                                         \o service.name))
                /\ inv' = [inv EXCEPT ![i] =
                             Return([v EXCEPT !.executed = TRUE, !.called = TRUE,
                                              !.args = kwargs],
                                    "error: Service execution error: " \o h.error)]
           ELSE /\ UNCHANGED sink
                /\ inv' = [inv EXCEPT ![i] = [v EXCEPT !.executed = TRUE, !.called = TRUE,
                                                       !.args = kwargs, !.pc = "crashed"]]
        /\ UNCHANGED tasks
        /\ InvocationFrame

(* Mounted services called by one request after the other *)

EchoList ==
    << Definition(1, "echo",    "GET", "/echo/{msg}",    <<>>, "returns"),
       Definition(2, "soup",    "GET", "/soup/{msg}",    <<"beautifulsoup4">>, "returns"),
       Definition(3, "needy",   "GET", "/needy/{msg}",   <<"json", "nosuchpkg">>, "returns"),
       Definition(4, "chatty",  "GET", "/chatty/{msg}",  <<>>, "logs"),
       Definition(5, "empty",   "GET", "/empty/{msg}",   <<>>, "no_handler"),
       Definition(6, "broken",  "GET", "/broken/{msg}",  <<>>, "syntax_error"),
       Definition(7, "faulty",  "GET", "/faulty/{msg}",  <<>>, "raises"),
       Definition(8, "absent",  "GET", "/absent/{msg}",  <<>>, "raises_http"),
       Definition(9, "quitter", "GET", "/quitter/{msg}", <<>>, "exits") >>

EchoServices == {EchoList[n] : n \in DOMAIN EchoList}
EchoArgs     == {[n \in {"msg"} |-> v] : v \in {"hi", "yo"}}
EchoRequests == {[path |-> a, query |-> NoParams,
                  body |-> [json |-> "invalid", fields |-> NoParams]] : a \in EchoArgs}

\* every service of the list is stored, active, mounted and registered as a tool
InitInvoke ==
    /\ store = EchoList
    /\ routes = BuiltinRoutes \o [n \in DOMAIN EchoList |-> dynamic_route(EchoList[n])]
    /\ tools = {EchoList[n].name : n \in DOMAIN EchoList}
    /\ resources = {}
    /\ prompts = {}
    /\ response = Reply("none", 0, 0, "none")
    /\ seq = NoSeq
    /\ pc = "serving"
    /\ mounted_at_start = {}
    /\ pending = <<>>
    /\ reqs = NoRequests
    /\ inv = NoInvocations
    /\ loggers = NoLoggers
    /\ sink = <<>>
    /\ tasks = {}
    /\ built = NoSignature
    /\ agent = NoExecution

\* no call is in progress: every earlier one has returned or raised
Quiescent == \A j \in Invocations : inv[j].pc \in {"idle", "done", "crashed"}

HttpCall == \E i \in Invocations, service \in {e \in EchoServices : Mounted(e)},
               request \in EchoRequests :
                   Quiescent /\ dynamic_handler(i, service, request)
McpCall  == \E i \in Invocations, service \in {e \in EchoServices : e.name \in tools},
               kwargs \in EchoArgs :
                   Quiescent /\ MCPManager_execute_service(i, service, kwargs)
StartedLogged   == \E i \in Invocations, f \in BOOLEAN : started_logged(i, f)
DependencyLoaded == \E i \in Invocations, f \in BOOLEAN : dependency_loaded(i, f)
ImportFailed    == \E i \in Invocations, f \in BOOLEAN : import_failed(i, f)
MissingHandler  == \E i \in Invocations, f \in BOOLEAN : missing_handler_logged(i, f)
HandlerCalled   == \E i \in Invocations, f \in BOOLEAN : handler_called(i, f)
CompletedLogged == \E i \in Invocations, f \in BOOLEAN : completed_logged(i, f)
HttpExceptionLogged == \E i \in Invocations, f \in BOOLEAN : http_exception_logged(i, f)
ExecutionErrorLogged == \E i \in Invocations, f \in BOOLEAN : execution_error_logged(i, f)
RunLogTask      == \E t \in tasks, f \in BOOLEAN : run_log_task(t, f)

NextInvoke ==
    \/ HttpCall
    \/ McpCall
    \/ StartedLogged
    \/ DependencyLoaded
    \/ ImportFailed
    \/ MissingHandler
    \/ HandlerCalled
    \/ CompletedLogged
    \/ HttpExceptionLogged
    \/ ExecutionErrorLogged
    \/ RunLogTask

SpecInvoke == InitInvoke /\ [][NextInvoke]_vars

(* Mounted services called by requests that are in progress together *)

TogetherServices == {e \in EchoServices : e.code \in {"returns", "logs", "raises"}
                                           /\ e.dependencies = <<>>}

InitInterleaved == InitInvoke

HttpCallTogether ==
    \E i \in Invocations, service \in {e \in TogetherServices : Mounted(e)},
       request \in EchoRequests : dynamic_handler(i, service, request)

NextInterleaved ==
    \/ HttpCallTogether
    \/ StartedLogged
    \/ HandlerCalled
    \/ CompletedLogged
    \/ ExecutionErrorLogged
    \/ RunLogTask

SpecInterleaved == InitInterleaved /\ [][NextInterleaved]_vars

----------------------------------------------------------------------------
(* Resource services: the mapping a handler returns, as the HTTP route and  *)
(* the MCP resource_handler pass it on                                       *)

ResourceDefinition(id, name, route, code) ==
    [Definition(id, name, "GET", route, <<>>, code) EXCEPT !.service_type = "resource"]

\* handler(**params) of a resource service:
\*   serves     return {"content": "hello", "mimeType": "text/plain"}
\*   describes  return {"mimeType": "text/plain"}
\*   raises     raise ValueError("boom")
resource_call_handler(code) ==
    IF code = "serves"
    THEN [outcome |-> "returns", error |-> "none",
          value |-> [content |-> "hello", mimeType |-> "text/plain"]]
    ELSE IF code = "describes"
    THEN [outcome |-> "returns", error |-> "none", value |-> [mimeType |-> "text/plain"]]
    ELSE [outcome |-> "raises", error |-> "boom", value |-> [error |-> "boom"]]

\* the text of a mapping with quote character q
dumps(result, q) ==
    LET keys == SelectSeq(<<"content", "mimeType", "error">>, LAMBDA k : k \in DOMAIN result)
        Item(n) == q \o keys[n] \o q \o ": " \o q \o result[keys[n]] \o q
    IN  IF Len(keys) = 0 THEN "{}"
        ELSE IF Len(keys) = 1 THEN "{" \o Item(1) \o "}"
        ELSE IF Len(keys) = 2 THEN "{" \o Item(1) \o ", " \o Item(2) \o "}"
        ELSE "{" \o Item(1) \o ", " \o Item(2) \o ", " \o Item(3) \o "}"

str(result)        == dumps(result, "'")
json_dumps(result) == dumps(result, "\"")

\* result = handler(**params) under "Calling handler function"
resource_called(i, insert_fails) ==
    LET h == resource_call_handler(inv[i].service.code)
    IN  /\ inv[i].pc = "await_calling"
        /\ inv[i].service.service_type = "resource"
        /\ sink' = Append(sink, ServiceLogger_log(i, inv[i].logger, "debug",
                                                 "Calling handler function", insert_fails))
        /\ inv' = [inv EXCEPT ![i] =
                     IF h.outcome = "returns"
                     THEN [@ EXCEPT !.called = TRUE, !.args = inv[i].params,
                                    !.result = json_dumps(h.value), !.pc = "await_completed"]
                     ELSE [@ EXCEPT !.called = TRUE, !.args = inv[i].params,
                                    !.pc = "await_execution_error",
                                    !.raising = HTTPException(500,
                                         "Service execution error: " \o h.error)]]
        /\ UNCHANGED tasks
        /\ InvocationFrame

\* return JSONResponse(content=result, headers={"X-Execution-ID": execution_id})
resource_completed(i, insert_fails) ==
    /\ inv[i].pc = "await_completed"
    /\ inv[i].service.service_type = "resource"
    /\ sink' = Append(sink, ServiceLogger_log(i, inv[i].logger, "info",
                               "Service execution completed successfully", insert_fails))
    /\ inv' = [inv EXCEPT ![i].pc = "done",
                          ![i].response = [status |-> 200, body |-> inv[i].result,
                                           header |-> inv[i].execution_id]]
    /\ UNCHANGED tasks
    /\ InvocationFrame

\* MCPManager._execute_service(service, {}) of a resource service: the
\* handler's mapping, or the {"error": ...} mapping it returns itself
resource_execute_service(service) ==
    LET missing == mcp_import(service.dependencies)
        x == exec_code(service.code)
        h == resource_call_handler(service.code)
    IN  IF missing # "none" THEN [error |-> "Missing dependency: " \o missing]
        ELSE IF x.raised # "none" THEN [error |-> "Service execution error: " \o x.raised]
        ELSE IF ~x.handler THEN [error |-> "Service code must define a 'handler' function"]
        ELSE IF h.outcome = "returns" THEN h.value
        ELSE [error |-> "Service execution error: " \o h.error]

\* resource_handler of _register_resource: the content entry of the result,
\* or else the text of whatever was returned
resource_handler(i, service) ==
    LET result == resource_execute_service(service)
        raised == \/ mcp_import(service.dependencies) # "none"
                  \/ exec_code(service.code).raised # "none"
                  \/ /\ exec_code(service.code).handler
                     /\ resource_call_handler(service.code).outcome = "raises"
    IN  /\ pc = "serving"
        /\ inv[i].pc = "idle"
        /\ \A j \in Invocations : j < i => inv[j].pc # "idle"
        /\ inv' = [inv EXCEPT ![i] =
                     [@ EXCEPT !.pc = "done", !.via = "mcp", !.service = service,
                               !.executed = TRUE, !.called = TRUE,
                               !.result = json_dumps(result),
                               !.response = [status |-> 0, header |-> "none",
                                             body |-> IF "content" \in DOMAIN result
                                                      THEN result["content"]
                                                      ELSE str(result)]]]
        /\ sink' = IF raised
                   THEN Append(sink, logging_error(i, "Error executing MCP service "
                                                      \o service.name))
                   ELSE sink
        /\ UNCHANGED tasks
        /\ InvocationFrame

ResourceList ==
    << ResourceDefinition(1, "page",  "/page",  "serves"),
       ResourceDefinition(2, "stub",  "/stub",  "describes"),
       ResourceDefinition(3, "dud",   "/dud",   "raises") >>

ResourceServices == {ResourceList[n] : n \in DOMAIN ResourceList}

\* every resource service is stored, active, mounted and registered
InitResource ==
    /\ store = ResourceList
    /\ routes = BuiltinRoutes \o [n \in DOMAIN ResourceList |-> dynamic_route(ResourceList[n])]
    /\ tools = {}
    /\ resources = {ResourceList[n].name : n \in DOMAIN ResourceList}
    /\ prompts = {}
    /\ response = Reply("none", 0, 0, "none")
    /\ seq = NoSeq
    /\ pc = "serving"
    /\ mounted_at_start = {}
    /\ pending = <<>>
    /\ reqs = NoRequests
    /\ inv = NoInvocations
    /\ loggers = NoLoggers
    /\ sink = <<>>
    /\ tasks = {}
    /\ built = NoSignature
    /\ agent = NoExecution

HttpGetResource ==
    \E i \in Invocations, service \in {e \in ResourceServices : Mounted(e)} :
        Quiescent /\ dynamic_handler(i, service, NoRequest)
McpReadResource ==
    \E i \in Invocations, service \in {e \in ResourceServices : e.name \in resources} :
        Quiescent /\ resource_handler(i, service)
ResourceCalled    == \E i \in Invocations, f \in BOOLEAN : resource_called(i, f)
ResourceCompleted == \E i \in Invocations, f \in BOOLEAN : resource_completed(i, f)

NextResource ==
    \/ HttpGetResource
    \/ McpReadResource
    \/ StartedLogged
    \/ ResourceCalled
    \/ ResourceCompleted
    \/ ExecutionErrorLogged

SpecResource == InitResource /\ [][NextResource]_vars

(* Update of a stored service, api/services.py update_service -> ServiceCRUD.update *)

Unset         == "unset"
UpdateNames   == {"alpha", "beta"}
UpdateMethods == Methods

\* ServiceUpdate: every field is optional; a field left out of the request is unset
Updates == {[name |-> n, route |-> r, method |-> m] :
               n \in UpdateNames \cup {Unset}, r \in Paths \cup {Unset},
               m \in UpdateMethods \cup {Unset}}

\* service_update.model_dump(exclude_unset=True): the fields that were sent
update_data(service_update) == {f \in DOMAIN service_update : service_update[f] # Unset}

\* update_one({"_id": id}, {"$set": update_data}) on the stored document
set_fields(doc, service_update) ==
    [f \in DOMAIN doc |-> IF f \in update_data(service_update) THEN service_update[f]
                           ELSE doc[f]]

\* the unique indexes on name and route refuse the update
update_duplicates(id, service_update) ==
    \E j \in Stored \ {id} :
        \/ "name" \in update_data(service_update) /\ store[j].name = service_update.name
        \/ "route" \in update_data(service_update) /\ store[j].route = service_update.route

\* PUT /services/{id}: the document is rewritten, the router is not consulted
update_service(id, service_update) ==
    /\ pc = "serving"
    /\ IF update_data(service_update) = {}
       THEN /\ response' = Reply("update", id, 404, "none")
            /\ UNCHANGED store
       ELSE IF ~Exists(id)
       THEN /\ response' = Reply("update", id, 500, "none")
            /\ UNCHANGED store
       ELSE IF update_duplicates(id, service_update)
       THEN /\ response' = Reply("update", id, 400, "none")
            /\ UNCHANGED store
       ELSE /\ store' = [store EXCEPT ![id] = set_fields(@, service_update)]
            /\ response' = Reply("update", id, 200, "none")
    /\ seq' = NoSeq
    /\ UNCHANGED router
    /\ Unserved

\* one stored tool service, inactive and unmounted
InitUpdate ==
    /\ store = [i \in Ids |-> Service(i, "alpha", "tool", "/echo", "GET", FALSE)]
    /\ routes = BuiltinRoutes
    /\ tools = {}
    /\ resources = {}
    /\ prompts = {}
    /\ response = Reply("none", 0, 0, "none")
    /\ seq = NoSeq
    /\ pc = "serving"
    /\ mounted_at_start = {}
    /\ pending = <<>>
    /\ reqs = NoRequests
    /\ inv = NoInvocations
    /\ loggers = NoLoggers
    /\ sink = <<>>
    /\ tasks = {}
    /\ built = NoSignature
    /\ agent = NoExecution

Update == \E id \in Ids, u \in Updates : update_service(id, u)

NextUpdate ==
    \/ Update
    \/ ApiActivate
    \/ ApiDeactivate

SpecUpdate == InitUpdate /\ [][NextUpdate]_vars

(* A delete request in flight together with activate / deactivate requests, *)
(* api/services.py delete_service                                           *)

\* the handler resumes with the document it read: the two checks, then
\* service_crud.delete is awaited
resume_delete(r) ==
    LET rq == reqs[r]
    IN  /\ rq.pc = "got"
        /\ rq.op = "delete"
        /\ reqs' = [reqs EXCEPT ![r] =
                      IF rq.svc = NoService THEN [@ EXCEPT !.pc = "done", !.status = 404]
                      ELSE IF rq.svc.active THEN [@ EXCEPT !.pc = "done", !.status = 400]
                      ELSE [@ EXCEPT !.pc = "deleting"]]
        /\ UNCHANGED <<store, router, response, seq, pc, pending, mounted_at_start,
                       inv, loggers, sink, tasks, built, agent>>

\* delete_one is applied to the collection; deleted_count == 1 is answered 200
delete_one(r) ==
    LET id == reqs[r].svc.id
    IN  /\ reqs[r].pc = "deleting"
        /\ reqs' = [reqs EXCEPT ![r].pc = "done",
                                ![r].status = IF Exists(id) THEN 200 ELSE 404]
        /\ store' = [i \in DOMAIN store |-> IF i = id THEN NoService ELSE store[i]]
        /\ UNCHANGED <<router, response, seq, pc, pending, mounted_at_start,
                       inv, loggers, sink, tasks, built, agent>>

InitRace == InitConcurrent

RaceArrives == \E r \in Requests, op \in {"activate", "deactivate", "delete"}, id \in Ids :
                   service_crud_get(r, op, id)
ResumeToggle == \E r \in {q \in Requests : reqs[q].op \in {"activate", "deactivate"}} :
                    resume_with_service(r)
ResumeDelete == \E r \in Requests : resume_delete(r)
DeleteOne    == \E r \in Requests : delete_one(r)

NextRace ==
    \/ RaceArrives
    \/ ResumeToggle
    \/ ResumeDelete
    \/ Persist
    \/ DeleteOne

SpecRace == InitRace /\ [][NextRace]_vars

(* Signature synthesis for MCP tools and prompts: core/dynamic_tool_builder.py *)
(* and core/dynamic_prompt_builder.py                                         *)

ArgNames  == {"a", "b"}
ArgTypes  == {"string", "integer"}
ArgParams == [name : ArgNames, type : ArgTypes, required : BOOLEAN]
ParamLists == UNION {[1..n -> ArgParams] : n \in 0..MaxParams}

\* {"string": str, "number": float, "integer": int, ...}.get(param.type, str)
python_type(type) ==
    IF type = "integer" THEN "int" ELSE IF type = "number" THEN "float" ELSE "str"

\* inspect.Parameter(name, POSITIONAL_OR_KEYWORD, annotation=..., default=...)
Parameter(name, annotation, default) ==
    [name |-> name, annotation |-> annotation, default |-> default]

\* d[key] = value on a dict, kept as the sequence of its items: a key that is
\* present keeps its position and takes the new value, a new key goes last
dict_setitem(d, key, value) ==
    IF \E n \in DOMAIN d : d[n].key = key
    THEN [n \in DOMAIN d |-> IF d[n].key = key THEN [key |-> key, value |-> value] ELSE d[n]]
    ELSE Append(d, [key |-> key, value |-> value])

dict_values(d) == [n \in DOMAIN d |-> d[n].value]

RECURSIVE Signature_check(_, _, _)
\* the validating loop of inspect.Signature.__init__ over positional-or-keyword
\* parameters: the first offence raises ValueError
Signature_check(parameters, seen, seen_default) ==
    IF parameters = <<>> THEN "none"
    ELSE LET param == Head(parameters)
         IN  IF param.default = "empty" /\ seen_default
             THEN "non-default argument follows default argument"
             ELSE IF param.name \in seen
             THEN "duplicate parameter name"
             ELSE Signature_check(Tail(parameters), seen \cup {param.name},
                                  seen_default \/ param.default # "empty")

Signature(parameters) ==
    [raised |-> Signature_check(parameters, {}, FALSE), parameters |-> parameters]

\* the Parameter both builders make of one declared parameter
tool_parameter(param) ==
    IF param.required
    THEN Parameter(param.name, python_type(param.type), "empty")
    ELSE Parameter(param.name, "Optional[" \o python_type(param.type) \o "]", "None")

prompt_parameter(arg) ==
    Parameter(arg.name, python_type(arg.type), IF arg.required THEN "empty" ELSE "None")

RECURSIVE tool_params_dict(_, _)
\* for param in service.params: params_dict[param.name] = inspect.Parameter(...)
tool_params_dict(params, params_dict) ==
    IF params = <<>> THEN params_dict
    ELSE tool_params_dict(Tail(params),
                          dict_setitem(params_dict, Head(params).name,
                                       tool_parameter(Head(params))))

\* create_dynamic_tool_function(service): Signature(list(params_dict.values()))
create_dynamic_tool_function(params) ==
    Signature(dict_values(tool_params_dict(params, <<>>)))

\* create_dynamic_prompt_function(service): Signature(params) of the appended list
create_dynamic_prompt_function(prompt_args) ==
    Signature([n \in DOMAIN prompt_args |-> prompt_parameter(prompt_args[n])])

\* MCPManager._register_tool / _register_prompt build the function for a service
register_tool_function ==
    /\ built.by = "none"
    /\ built' = [by |-> "tool", params |-> built.params,
                 raised |-> create_dynamic_tool_function(built.params).raised,
                 parameters |-> create_dynamic_tool_function(built.params).parameters]
    /\ UNCHANGED <<store, router, response, seq, pc, pending, mounted_at_start,
                   reqs, inv, loggers, sink, tasks, agent>>

register_prompt_function ==
    /\ built.by = "none"
    /\ built' = [by |-> "prompt", params |-> built.params,
                 raised |-> create_dynamic_prompt_function(built.params).raised,
                 parameters |-> create_dynamic_prompt_function(built.params).parameters]
    /\ UNCHANGED <<store, router, response, seq, pc, pending, mounted_at_start,
                   reqs, inv, loggers, sink, tasks, agent>>

\* a service with any declared parameter list, before its function is built
InitSignature ==
    /\ store = [i \in Ids |-> NoService]
    /\ routes = BuiltinRoutes
    /\ tools = {}
    /\ resources = {}
    /\ prompts = {}
    /\ response = Reply("none", 0, 0, "none")
    /\ seq = NoSeq
    /\ pc = "serving"
    /\ mounted_at_start = {}
    /\ pending = <<>>
    /\ reqs = NoRequests
    /\ inv = NoInvocations
    /\ loggers = NoLoggers
    /\ sink = <<>>
    /\ tasks = {}
    /\ built \in {[NoSignature EXCEPT !.params = ps] : ps \in ParamLists}
    /\ agent = NoExecution

NextSignature ==
    \/ register_tool_function
    \/ register_prompt_function

SpecSignature == InitSignature /\ [][NextSignature]_vars

(* Agent execution: services/agent_executor.py, AgentExecutor.execute ->     *)
(* _prepare_tools -> _call_llm_with_tools -> _execute_tool_calls.  The LLM   *)
(* and the HTTP calls to the services are the environment: what they answer  *)
(* is chosen freely.  _call_groq_with_tools runs the same loop.              *)

\* the services in the store: lookup is active and mounted, secret is active
\* and mounted, retired is inactive and has no route
ToolList ==
    << Definition(1, "lookup", "GET", "/lookup", <<>>, "returns"),
       Definition(2, "secret", "GET", "/secret", <<>>, "returns"),
       [Definition(3, "retired", "GET", "/retired", <<>>, "returns") EXCEPT !.active = FALSE] >>

\* agent.mcp_services of the agent that is executed
DeclaredServices == {"lookup", "retired"}

MemoryTools == {"memory_search", "memory_store", "memory_analyze"}

\* what a model may name in a tool call
ToolNames == {"lookup", "secret", "retired", "ghost", "memory_search"}

\* tool_call["function"]["arguments"]: a JSON object, or text that is no JSON
Arguments == {"{}", "{oops"}

ToolCalls == [name : ToolNames, arguments : Arguments]
Contents  == {"none", "answer"}

\* tool_call["id"] of the n-th tool call of the response of an iteration
call_id(iteration, n) == 10 * iteration + n

\* the responses of the chat completions endpoint: an HTTP error status, a body
\* without "choices", or a message with content and tool calls.  A tool call
\* is held by its id; its name and arguments are read when it is executed.
LlmResponses(iteration) ==
    {[kind |-> k, content |-> "none", tool_calls |-> <<>>] : k \in {"error", "no_choices"}}
    \cup {[kind |-> "message", content |-> c,
            tool_calls |-> [n \in 1..k |-> call_id(iteration, n)]] :
             c \in Contents, k \in 0..MaxCalls}

MaxIterationsOutput == "Max iterations reached without completion"

\* service_crud.get_by_name(name): find_one({"name": name})
get_by_name(name) ==
    IF \E n \in DOMAIN store : store[n] # NoService /\ store[n].name = name
    THEN store[CHOOSE n \in DOMAIN store : store[n] # NoService /\ store[n].name = name]
    ELSE NoService

\* _prepare_tools: a tool for every declared name that is found and active
prepare_tools(service_names) ==
    {name \in service_names : get_by_name(name) # NoService /\ get_by_name(name).active}

\* json.loads(arguments) raises JSONDecodeError
json_loads_raises(arguments) == arguments # "{}"

\* _execute_tool_calls, the body of its for loop for one tool call: the result
\* appended (the callee's answer, or an {"error": ...} mapping), the service
\* reached over HTTP, or the exception leaving the loop.
\* outcome is what the callee does: answers 200, answers 500, or does not
\* answer in time; a route that is not live answers 404.
execute_tool_call(tool_call, outcome) ==
    LET service == get_by_name(tool_call.name)
        Result(r, to) == [raised |-> FALSE, result |-> r, invoked |-> to]
    IN  IF json_loads_raises(tool_call.arguments)
        THEN [raised |-> TRUE, result |-> "none", invoked |-> {}]
        ELSE IF tool_call.name \in MemoryTools
        THEN Result(IF outcome = "200" THEN "result" ELSE "error", {})
        ELSE IF service = NoService
        THEN Result("error", {})
        ELSE IF ~Mounted(service)
        THEN Result("error", {})
        ELSE IF outcome = "200"
        THEN Result("result", {service.name})
        ELSE Result("error", {service.name})

\* `while iterations < max_iterations` and `if iterations < max_iterations: continue`
below_max_or_at(iterations, max_iterations) == iterations <= max_iterations

below_max(iterations, max_iterations) == iterations < max_iterations

\* _validate_output(output, "text"): isinstance(output_data, str)
validate_output(output) == output # "none"

AgentFrame == UNCHANGED <<store, router, response, seq, pc, pending, mounted_at_start,
                          reqs, inv, loggers, sink, tasks, built>>

\* execute, up to the loop: input validation, the LLM profile, _prepare_tools,
\* _build_messages
execute(max_iterations, input_valid, profile_active) ==
    /\ pc = "serving"
    /\ agent.pc = "idle"
    /\ agent' = IF input_valid /\ profile_active
                THEN [agent EXCEPT !.pc = "llm", !.max_iterations = max_iterations,
                                   !.tools = prepare_tools(DeclaredServices),
                                   !.messages = << [role |-> "user", tool_calls |-> <<>>,
                                                    tool_call_id |-> 0] >>]
                ELSE [agent EXCEPT !.pc = "done", !.max_iterations = max_iterations]
    /\ AgentFrame

\* the exception reaches `except Exception` of execute: success=False
Failed(a) == [a EXCEPT !.pc = "done", !.raised = TRUE, !.success = FALSE]

\* _call_llm_with_tools returns; execute validates the output and answers
Returned(a, output) ==
    [a EXCEPT !.pc = "done", !.result = [output |-> output, iterations |-> a.iterations],
              !.success = validate_output(output)]

\* one pass of the while loop up to the tool calls: the request to the LLM and
\* what is made of its response
call_llm(llm_response) ==
    LET a   == [agent EXCEPT !.iterations = @ + 1, !.llm_calls = @ + 1]
        msg == [role |-> "assistant", tool_calls |-> llm_response.tool_calls,
                tool_call_id |-> 0]
    IN  /\ agent.pc = "llm"
        /\ below_max(agent.iterations, agent.max_iterations)
        /\ agent' = IF llm_response.kind # "message"
                    THEN Failed(a)
                    ELSE IF llm_response.tool_calls = <<>>
                    THEN Returned([a EXCEPT !.messages = Append(@, msg),
                                            !.message = [content |-> llm_response.content,
                                                         tool_calls |-> <<>>]],
                                  llm_response.content)
                    ELSE [a EXCEPT !.pc = "tools", !.messages = Append(@, msg),
                                   !.message = [content |-> llm_response.content,
                                                tool_calls |-> llm_response.tool_calls],
                                   !.results = <<>>]
        /\ AgentFrame

\* the loop condition is false: the return after the loop
loop_exhausted ==
    /\ agent.pc = "llm"
    /\ ~below_max(agent.iterations, agent.max_iterations)
    /\ agent' = Returned(agent, MaxIterationsOutput)
    /\ AgentFrame

\* the next tool call of the response is executed; after the last one the
\* tool messages are appended and the loop continues or returns
tool_call_executed(tool_call, outcome) ==
    LET n    == Len(agent.results) + 1
        x    == execute_tool_call(tool_call, outcome)
        a    == [agent EXCEPT !.call = tool_call,
                              !.results = Append(@, x.result),
                              !.dispatched = @ \cup x.invoked]
        tool_messages == [m \in 1..n |->
                            [role |-> "tool", tool_calls |-> <<>>,
                             tool_call_id |-> agent.message.tool_calls[m]]]
    IN  /\ agent.pc = "tools"
        /\ agent' = IF x.raised
                    THEN Failed([agent EXCEPT !.call = tool_call])
                    ELSE IF n < Len(agent.message.tool_calls)
                    THEN a
                    ELSE IF below_max(agent.iterations, agent.max_iterations)
                    THEN [a EXCEPT !.pc = "llm", !.messages = @ \o tool_messages]
                    ELSE Returned([a EXCEPT !.messages = @ \o tool_messages],
                                  agent.message.content)
        /\ AgentFrame

\* the services of ToolList stored, the active ones mounted and registered
InitAgent ==
    /\ store = ToolList
    /\ routes = BuiltinRoutes \o << dynamic_route(ToolList[1]), dynamic_route(ToolList[2]) >>
    /\ tools = {"lookup", "secret"}
    /\ resources = {}
    /\ prompts = {}
    /\ response = Reply("none", 0, 0, "none")
    /\ seq = NoSeq
    /\ pc = "serving"
    /\ mounted_at_start = {}
    /\ pending = <<>>
    /\ reqs = NoRequests
    /\ inv = NoInvocations
    /\ loggers = NoLoggers
    /\ sink = <<>>
    /\ tasks = {}
    /\ built = NoSignature
    /\ agent = NoExecution

Execute   == \E n \in 0..MaxIterations, v \in BOOLEAN, p \in BOOLEAN : execute(n, v, p)
CallLlm   == \E llm_response \in LlmResponses(agent.iterations + 1) : call_llm(llm_response)
ToolCallExecuted == \E tool_call \in ToolCalls, outcome \in {"200", "500", "timeout"} :
                        tool_call_executed(tool_call, outcome)

NextAgent ==
    \/ Execute
    \/ CallLlm
    \/ loop_exhausted
    \/ ToolCallExecuted

SpecAgent == InitAgent /\ [][NextAgent]_vars

(* Properties *)

\* number of route-table entries answering (path, method)
RouteCount(path, method) ==
    Cardinality({i \in 1..Len(routes) : routes[i].path = path /\ method \in routes[i].methods})

\* number of route-table entries that were mounted for svc
DynCount(svc) == Cardinality({i \in 1..Len(routes) : routes[i] = dynamic_route(svc)})

\* number of MCP collections holding a registration under name
McpCount(name) ==
    (IF name \in tools THEN 1 ELSE 0) + (IF name \in resources THEN 1 ELSE 0)
        + (IF name \in prompts THEN 1 ELSE 0)

Registered(name) == name \in (tools \cup resources \cup prompts)

\* the service the last request was about
Subject == store[response.id]

\* the routes that were not mounted for svc, in table order
OtherRoutes(rt, svc) == SelectSeq(rt, LAMBDA r : r # dynamic_route(svc))

\* C1: after the consecutive router calls mount(S); unmount(S); mount(S), S of a
\* known service_type, there is exactly one live route for (S.route, S.method)
\* and exactly one MCP registration under S.name.
C1_RemountLeavesOne ==
    seq.pos = 3 =>
        /\ RouteCount(store[seq.id].route, store[seq.id].method) = 1
        /\ McpCount(store[seq.id].name) = 1

\* C2: in every state reached by activate and deactivate requests, each stored
\* service has at most one route-table entry of its own and at most one MCP
\* registration under its name.
C2_AtMostOneBinding ==
    \A id \in Stored : DynCount(store[id]) <= 1 /\ McpCount(store[id].name) <= 1

\* C3: a mount_service call made while the route table already holds the entry
\* mounted for S under (S.method, S.route) is rejected and leaves route table
\* and MCP registry unchanged.
C3_RemountRejected ==
    [][ \A id \in Stored :
           ( /\ response'.call \in {"mount", "mount_raised"}
             /\ response'.id = id
             /\ DynCount(store[id]) >= 1 )
           => (response'.status # 200 /\ UNCHANGED router) ]_vars

\* C4: when unmount_service returns for a mounted service S, S.name is in none
\* of the manager's tools, resources and prompts collections.
C4_UnmountUnregisters ==
    [][ \A id \in Stored :
           ( /\ response'.call = "unmount"
             /\ response'.id = id
             /\ DynCount(store[id]) >= 1
             /\ Registered(store[id].name) )
           => ~(store[id].name \in (tools' \cup resources' \cup prompts')) ]_vars

\* C5: unmount_service(S) leaves every route-table entry that was not mounted
\* for S as it was, and changes neither route table nor MCP registry when S is
\* not mounted.
C5_UnmountFrame ==
    [][ \A id \in Stored :
           (response'.call = "unmount" /\ response'.id = id)
           => /\ OtherRoutes(routes', store[id]) = OtherRoutes(routes, store[id])
              /\ (DynCount(store[id]) = 0 /\ ~Registered(store[id].name))
                    => UNCHANGED router ]_vars

\* C6: after a mount_service call that raised, neither the route table nor the
\* MCP registry holds an entry for S.
C6_FailedMountLeavesNothing ==
    response.call = "mount_raised" =>
        DynCount(Subject) = 0 /\ ~Registered(Subject.name)

\* C7: when the start-up pass has run, every stored service whose active flag is
\* true and whose mount does not fail has a live route and an MCP registration.
C7_AllActiveMounted ==
    (response.op = "startup" /\ response.status = 200) =>
        \A id \in Stored :
            (store[id].active /\ ~register_raises(store[id]))
            => (id \in mounted_at_start /\ DynCount(store[id]) = 1
                    /\ Registered(store[id].name))

\* C8: a delete request for a service whose active flag is true is answered 400
\* and changes neither store, route table nor MCP registry; a service leaves the
\* store only while its active flag is false.
C8_DeleteOnlyInactive ==
    [][ \A id \in Stored :
           /\ (response'.op = "delete" /\ response'.id = id /\ store[id].active)
                 => (response'.status = 400 /\ UNCHANGED <<store, router>>)
           /\ store'[id] = NoService => ~store[id].active ]_vars

C8_Witness ==
    /\ response.op = "delete"
    /\ response.status = 400
    /\ Exists(response.id)
    /\ Subject.active
    /\ DynCount(Subject) = 1

\* C9: an activate request for a service whose active flag is true, and a
\* deactivate request for one whose flag is false, makes no router call and
\* changes neither store, route table nor MCP registry.
C9_RedundantToggleIsNoop ==
    [][ \A id \in Stored :
           ( /\ response'.id = id
             /\ \/ response'.op = "activate" /\ store[id].active
                \/ response'.op = "deactivate" /\ ~store[id].active )
           => (response'.call = "none" /\ UNCHANGED <<store, router>>) ]_vars

C9_Witness ==
    /\ response.op = "activate"
    /\ response.call = "none"
    /\ Exists(response.id)
    /\ Subject.active
    /\ DynCount(Subject) = 1

\* C10: the service a create request returns has its active flag false, no live
\* route and no MCP registration.
C10_CreatedIsDefined ==
    (response.op = "create" /\ response.status = 200) =>
        /\ ~Subject.active
        /\ DynCount(Subject) = 0
        /\ ~Registered(Subject.name)

\* C11: under any interleaving of concurrent activate and deactivate requests
\* for one service, the service never has more than one route-table entry of
\* its own, and once every request has been answered, none of them with a 500,
\* it has a live route and an MCP registration exactly if its stored active
\* flag is true.
AllAnswered == \A r \in Requests : reqs[r].pc \in {"idle", "done"}
NoneFailed  == \A r \in Requests : reqs[r].status # 500

C11_ConcurrentTogglesConsistent ==
    \A id \in Stored :
        /\ DynCount(store[id]) <= 1
        /\ (AllAnswered /\ NoneFailed)
              => ((DynCount(store[id]) >= 1 /\ Registered(store[id].name))
                     <=> store[id].active)

\* C12: the resolved parameter mapping of an invocation binds exactly the names
\* of the path placeholders, the query parameters and (for POST, PUT and PATCH
\* only) the JSON body fields, each name to the value of the last of these
\* sources that has it; for route /greet/{name}, method GET, path name=Alice
\* and query loud=true it is exactly {name: Alice, loud: true}.
BodyFields(i) ==
    IF inv[i].service.method \in {"POST", "PUT", "PATCH"} /\ inv[i].request.body.json = "object"
    THEN inv[i].request.body.fields ELSE NoParams

C12_ParamsLastSourceWins ==
    \A i \in Invocations : inv[i].via = "http" =>
        LET path  == inv[i].request.path
            query == inv[i].request.query
            body  == BodyFields(i)
            P     == inv[i].params
        IN  /\ DOMAIN P = DOMAIN path \cup DOMAIN query \cup DOMAIN body
            /\ \A n \in DOMAIN P :
                  P[n] = IF n \in DOMAIN body THEN body[n]
                         ELSE IF n \in DOMAIN query THEN query[n]
                         ELSE path[n]
            /\ ( /\ inv[i].service.route = "/greet/{name}"
                 /\ inv[i].service.method = "GET"
                 /\ path = [n \in {"name"} |-> "Alice"]
                 /\ query = [n \in {"loud"} |-> "true"] )
               => P = [n \in {"name", "loud"} |-> IF n = "name" THEN "Alice" ELSE "true"]

C12_Witness ==
    /\ inv[1].service.route = "/greet/{name}"
    /\ inv[1].service.method = "GET"
    /\ inv[1].request.path = [n \in {"name"} |-> "Alice"]
    /\ inv[1].request.query = [n \in {"loud"} |-> "true"]
    /\ inv[1].params = [n \in {"name", "loud"} |-> IF n = "name" THEN "Alice" ELSE "true"]

\* the declared dependencies of a service that no installed module provides
Unimportable(service) ==
    {n \in DOMAIN service.dependencies :
        package_mappings(service.dependencies[n]) \notin Installed}
FirstUnimportable(service) ==
    service.dependencies[CHOOSE n \in Unimportable(service) :
                            \A m \in Unimportable(service) : n <= m]

\* C13: in an invocation of a service with a declared dependency X that cannot
\* be imported, the stored code is never executed and the handler never called,
\* and the invocation ends with the error response "Missing dependency: X" and
\* an error-level log entry about X.
C13_MissingDependencyAborts ==
    \A i \in Invocations :
        (inv[i].via # "none" /\ Unimportable(inv[i].service) # {}) =>
            LET X == FirstUnimportable(inv[i].service)
            IN  /\ ~inv[i].executed
                /\ ~inv[i].called
                /\ inv[i].pc # "crashed"
                /\ inv[i].pc = "done" =>
                      /\ inv[i].via = "http" =>
                            /\ inv[i].response.status = 500
                            /\ inv[i].response.body = "Missing dependency: " \o X
                            /\ \E n \in DOMAIN sink :
                                  /\ sink[n].execution_id = inv[i].execution_id
                                  /\ sink[n].level = "error"
                                  /\ sink[n].message = "Failed to import dependency " \o X
                      /\ inv[i].via = "mcp" =>
                            /\ inv[i].response.body = "error: Missing dependency: " \o X
                            /\ \E n \in DOMAIN sink :
                                  /\ sink[n].level = "error"
                                  /\ sink[n].message = "Failed to import dependency " \o X

C13_Witness ==
    /\ inv[1].via = "http"
    /\ inv[1].service.dependencies = <<"json", "nosuchpkg">>
    /\ inv[1].pc = "done"
    /\ inv[1].response.body = "Missing dependency: nosuchpkg"
    /\ inv[2].via = "mcp"
    /\ inv[2].service.dependencies = <<"json", "nosuchpkg">>
    /\ inv[2].pc = "done"

\* the stored code runs without raising and leaves no "handler" behind
LacksHandler(service) ==
    exec_code(service.code).raised = "none" /\ ~exec_code(service.code).handler

\* the stored code, or its handler, raises an Exception that `except Exception` turns
\* into the runtime-error response
RaisesError(service, params) ==
    \/ exec_code(service.code).raised # "none"
    \/ /\ exec_code(service.code).handler
       /\ call_handler(service.code, params).outcome = "raises"

Ended(i) == inv[i].pc \in {"done", "crashed"}

Raises(service, params) ==
    \/ exec_code(service.code).raised # "none"
    \/ /\ exec_code(service.code).handler
       /\ call_handler(service.code, params).outcome # "returns"

\* C15: an HTTP invocation in which executing the stored code or calling its
\* handler raised never leaves dynamic_handler with an unhandled exception, and
\* ends with an HTTP 500 error response after an error-level log entry, with
\* the route table and the MCP registry as they were.
C15_ExceptionsBecome500 ==
    \A i \in Invocations :
        ( /\ inv[i].via = "http"
          /\ inv[i].executed
          /\ Raises(inv[i].service, inv[i].params)
          /\ Ended(i) )
        => /\ inv[i].pc = "done"
           /\ inv[i].response.status = 500
           /\ \E n \in DOMAIN sink : sink[n].origin = i /\ sink[n].level = "error"
           /\ Len(routes) = Len(BuiltinRoutes) + Len(EchoList)
           /\ \A e \in EchoServices : Mounted(e) /\ e.name \in tools

\* C16: the response of every HTTP invocation, a success or an error, carries
\* the execution_id of that invocation.
C16_ResponseCarriesExecutionId ==
    \A i \in Invocations :
        (inv[i].via = "http" /\ inv[i].pc = "done")
        => inv[i].response.header = inv[i].execution_id

Count(entries, message) ==
    Cardinality({n \in DOMAIN entries : entries[n].message = message})

\* C17: among the log entries of one HTTP invocation 'Service execution started'
\* comes first; when the invocation has returned a success there is exactly one
\* 'started' and exactly one 'completed' entry; when it has ended with an error,
\* returned or raised, there is an error-level entry written before that.
C17_EntriesOrdered ==
    \A i \in Invocations : inv[i].via = "http" =>
        LET E == SelectSeq(sink, LAMBDA e : e.origin = i)
        IN  /\ E # <<>> => E[1].message = "Service execution started"
            /\ (inv[i].pc = "done" /\ inv[i].response.status = 200) =>
                  /\ Count(E, "Service execution started") = 1
                  /\ Count(E, "Service execution completed successfully") = 1
            /\ (Ended(i) /\ inv[i].response.status # 200) =>
                  \E n \in DOMAIN E : E[n].level = "error"

\* the number of entries in a sink that carry an execution_id
Carrying(entries, execution_id) ==
    Cardinality({n \in DOMAIN entries : entries[n].execution_id = execution_id})

C19_InvocationsIsolated ==
    \A i \in Invocations : inv[i].via = "http" =>
        LET own == resolve_params(inv[i].service.method, inv[i].request)
        IN  /\ \A j \in Invocations \ {i} :
                  inv[j].via = "http" => inv[j].execution_id # inv[i].execution_id
            /\ inv[i].called => inv[i].args = own
            /\ \A n \in DOMAIN sink :
                  (sink[n].origin = i /\ sink[n].to # "app_logs") =>
                      /\ sink[n].execution_id = inv[i].execution_id
                      /\ sink[n].request_data.params = own
                      /\ sink[n].request_data.route = inv[i].service.route

C19_Witness ==
    /\ inv[1].service = inv[2].service
    /\ inv[1].params # inv[2].params
    /\ inv[1].pc = "done"
    /\ inv[2].pc = "done"
    /\ inv[1].called
    /\ inv[2].called
    /\ \E n, m \in DOMAIN sink : n < m /\ sink[n].origin = 2 /\ sink[m].origin = 1
    /\ \E n, m \in DOMAIN sink : n < m /\ sink[n].origin = 1 /\ sink[m].origin = 2
    /\ sink[1].origin = 1
    /\ sink[2].origin = 2

\* C20: whether the inserts of its log entries succeed or fail, an HTTP
\* invocation ends the same way: two invocations of the same service with the
\* same request end with the same status and body (or both by an unhandled
\* exception), whichever of their sink writes failed.
C20_SinkFailureUnseen ==
    \A i, j \in Invocations :
        ( /\ inv[i].via = "http" /\ inv[j].via = "http"
          /\ Ended(i) /\ Ended(j)
          /\ inv[i].service = inv[j].service
          /\ inv[i].request = inv[j].request )
        => /\ inv[i].pc = inv[j].pc
           /\ inv[i].response.status = inv[j].response.status
           /\ inv[i].response.body = inv[j].response.body

C20_Witness ==
    /\ inv[1].via = "http" /\ inv[2].via = "http"
    /\ inv[1].service = inv[2].service
    /\ inv[1].request = inv[2].request
    /\ inv[1].pc = "done" /\ inv[2].pc = "done"
    /\ inv[1].response.status = 200
    /\ inv[2].response.status = 200
    /\ \A n \in DOMAIN sink : sink[n].origin = 1 => sink[n].to = "console"
    /\ \A n \in DOMAIN sink : sink[n].origin = 2 => sink[n].to = "service_logs"

\* what the caller of an invocation gets: the handler's return value, or an error
Outcome(i) ==
    IF inv[i].pc = "done" /\ inv[i].called /\ inv[i].response.body = "echo: " \o inv[i].result
    THEN [ok |-> TRUE, value |-> inv[i].result]
    ELSE [ok |-> FALSE, value |-> "error"]

\* C26: an invocation of a service over its HTTP route and one over its MCP
\* handler with the same parameter mapping have the same outcome: the same
\* result value, or an error on both surfaces.
C26_SurfacesAgree ==
    \A i, j \in Invocations :
        ( /\ Ended(i) /\ Ended(j)
          /\ inv[i].via = "http" /\ inv[j].via = "mcp"
          /\ inv[i].service = inv[j].service
          /\ inv[i].params = inv[j].params )
        => Outcome(i) = Outcome(j)

\* the service has a live route and an MCP registration
Live(S, rt, t, r, p) ==
    /\ \E n \in 1..Len(rt) : rt[n] = dynamic_route(S)
    /\ S.name \in (t \cup r \cup p)

\* C27: a completed activate or deactivate request, one whose persisting of
\* the active flag failed included, leaves the service with a live route and
\* MCP registration if and only if its persisted active flag is true, when
\* that was so before the request.
C27_FlagMatchesBinding ==
    [][ \A id \in Ids :
          ( /\ Exists(id)
            /\ Live(store[id], routes, tools, resources, prompts) <=> store[id].active
            /\ response'.op \in {"activate", "deactivate"}
            /\ response'.id = id )
          => ( Live(store'[id], routes', tools', resources', prompts')
                 <=> store'[id].active ) ]_vars

\* the route-table entries that mount_service added
DynamicRoutes(rt) == SelectSeq(rt, LAMBDA r : \A n \in DOMAIN BuiltinRoutes : r # BuiltinRoutes[n])

\* C28: deactivating an active service whose one route and one MCP
\* registration were created at its activation removes them, also when the
\* service's route, method or name was updated in between: after the
\* deactivate no live binding remains.
C28_DeactivateRemovesBinding ==
    [][ \A id \in Ids :
          ( /\ Exists(id) /\ store[id].active
            /\ Len(DynamicRoutes(routes)) = 1
            /\ Cardinality(tools) = 1
            /\ response'.op = "deactivate" /\ response'.id = id
            /\ response'.status = 200 )
          => ( DynamicRoutes(routes') = <<>> /\ tools' = {} ) ]_vars

\* C29: whatever the interleaving of a delete request with concurrent activate
\* requests for the same service, once every request has been answered, none
\* of them with a 500, a service that is gone from the store has no live route
\* and no MCP registration.
C29_DeletedHasNoBinding ==
    \A id \in Ids :
        (AllAnswered /\ NoneFailed /\ ~Exists(id))
        => (DynamicRoutes(routes) = <<>> /\ tools = {})

\* a name occurs twice in the parameter list
HasDuplicate(params) ==
    \E m, n \in DOMAIN params : m # n /\ params[m].name = params[n].name

\* C25: synthesizing a signature from a parameter list in which a name occurs
\* twice fails with an error.
C25_DuplicateNamesRejected ==
    (built.by # "none" /\ HasDuplicate(built.params)) => built.raised # "none"

\* the handler of the resource service returns a mapping without a content entry
LacksContent(service) ==
    /\ service.service_type = "resource"
    /\ resource_call_handler(service.code).outcome = "returns"
    /\ "content" \notin DOMAIN resource_call_handler(service.code).value

\* C24: an invocation of a resource service whose handler returns a mapping
\* without a content entry ends in an error outcome, on the HTTP route and on
\* the MCP resource alike; it never returns a successful result.
C24_ResourceWithoutContentRejected ==
    \A i \in Invocations :
        (Ended(i) /\ inv[i].called /\ LacksContent(inv[i].service))
        => ~(inv[i].pc = "done" /\ inv[i].response.status \in {0, 200})

\* every assistant message of the execution requested tool calls
AlwaysToolCalls ==
    \A n \in DOMAIN agent.messages :
        agent.messages[n].role = "assistant" => agent.messages[n].tool_calls # <<>>

\* C21: an execution with max_iterations = N >= 1 in which the LLM requested
\* tool calls on every turn, and nothing raised, ends after exactly N LLM calls
\* with the 'max iterations reached' text as its output.
C21_MaxIterationsResult ==
    ( /\ agent.pc = "done" /\ ~agent.raised
      /\ agent.max_iterations >= 1 /\ agent.llm_calls >= 1
      /\ AlwaysToolCalls )
    => ( /\ agent.llm_calls = agent.max_iterations
         /\ agent.result.output = MaxIterationsOutput )

\* what an execution may still do: the LLM calls left, and the tool calls left
\* of the response at hand
Measure(a) ==
    IF a.pc = "done" THEN 0
    ELSE IF a.pc = "idle" THEN (MaxIterations + 1) * (MaxCalls + 1) + 1
    ELSE (a.max_iterations - a.iterations) * (MaxCalls + 1) + 1
            + (IF a.pc = "tools" THEN Len(a.message.tool_calls) - Len(a.results) ELSE 0)

\* C22: whatever the LLM and the tools answer, an execution never makes more
\* than max_iterations LLM calls, every step of it uses up a call that is left
\* (so it ends), and a response without tool calls ends it at once with the
\* content of that response as the output.
C22_LoopBoundedAndFinal ==
    [][ agent' # agent =>
          /\ agent'.llm_calls <= agent'.max_iterations
          /\ Measure(agent') >= 0
          /\ Measure(agent') < Measure(agent)
          /\ ( ( /\ agent'.llm_calls = agent.llm_calls + 1
                 /\ ~agent'.raised
                 /\ agent'.message.tool_calls = <<>> )
               => ( /\ agent'.pc = "done"
                    /\ agent'.result.output = agent'.message.content ) ) ]_vars

\* an execution that used every LLM call it had, ran tool calls, and ended on
\* a response without tool calls
C22_Witness ==
    /\ agent.pc = "done" /\ ~agent.raised
    /\ agent.max_iterations >= 2
    /\ agent.llm_calls = agent.max_iterations
    /\ agent.message.tool_calls = <<>>
    /\ agent.result.output = "answer"
    /\ Len(agent.messages) > 3

\* C23: once a turn in which the model requested k tool calls is over, all k
\* calls have been executed, each with a result or an error result, and the k
\* tool messages carrying their ids follow the assistant message in the list.
C23_AllToolResultsAppended ==
    LET k == Len(agent.message.tool_calls)
    IN  (agent.pc \in {"llm", "done"} /\ k > 0)
        => /\ Len(agent.results) = k
           /\ \E p \in DOMAIN agent.messages :
                 /\ agent.messages[p].role = "assistant"
                 /\ agent.messages[p].tool_calls = agent.message.tool_calls
                 /\ p + k <= Len(agent.messages)
                 /\ \A n \in 1..k :
                       /\ agent.messages[p + n].role = "tool"
                       /\ agent.messages[p + n].tool_call_id = agent.message.tool_calls[n]

\* C30: every service an execution reached over HTTP is one of the agent's
\* declared mcp_services that was offered as a tool, and a tool call that names
\* anything else has got an error result.
C30_OnlyOfferedToolsDispatched ==
    /\ agent.dispatched \subseteq (agent.tools \cap DeclaredServices)
    /\ ( /\ agent.results # <<>> /\ ~agent.raised
         /\ agent.pc = "tools"
         /\ agent.call.name \notin agent.tools )
       => agent.results[Len(agent.results)] = "error"

====
